---------------------------- MODULE Spec2Model ----------------------------
(***************************************************************************)
(* The cpp-example fixture of meta-selftest: the CppExample library        *)
(* (cpp-example-lib.hpp, cpp-example-lib.cpp), the demonstration program   *)
(* (cpp-example.cpp) and the verification program (test-cpp-example.cpp).  *)
(*                                                                         *)
(* A std::string or a C string is a sequence of characters, each a         *)
(* one-character string; standard output is the sequence of characters     *)
(* written to it, a line break being the character "\n".                   *)
(***************************************************************************)
EXTENDS Integers, Sequences, FiniteSets

(***************************************************************************)
(* Bounds of the model.                                                    *)
(***************************************************************************)
\* Instances a free caller of the library constructs in one process.
MaxInstances == 2
\* Accessor calls a free caller of the library makes in one process.
MaxCalls == 3
\* Characters the arbitrary string source appends to the constant.
MaxAppend == 1

(***************************************************************************)
(* Characters and strings.                                                 *)
(***************************************************************************)
\* The printable characters in the order of their codes, from the space to the
\* tilde (the grave accent, which no string of the programs holds, left out).
Printable ==
    << " ", "!", "\"", "#", "$", "%", "&", "'", "(", ")", "*", "+", ",", "-",
       ".", "/", "0", "1", "2", "3", "4", "5", "6", "7", "8", "9", ":", ";",
       "<", "=", ">", "?", "@", "A", "B", "C", "D", "E", "F", "G", "H", "I",
       "J", "K", "L", "M", "N", "O", "P", "Q", "R", "S", "T", "U", "V", "W",
       "X", "Y", "Z", "[", "\\", "]", "^", "_", "a", "b", "c", "d", "e",
       "f", "g", "h", "i", "j", "k", "l", "m", "n", "o", "p", "q", "r", "s",
       "t", "u", "v", "w", "x", "y", "z", "{", "|", "}", "~" >>

\* The order of two characters, as char_traits<char>::lt has it: the place of
\* a printable character in the code table, the line break before them all.
Code(c) ==
    IF c = "\n" THEN 0
    ELSE CHOOSE i \in 1..Len(Printable) : Printable[i] = c

Min(a, b) == IF a <= b THEN a ELSE b

\* char_traits<char>::compare(a, b, n): the order of the first n characters,
\* decided at the first place where they differ; only the sign is specified.
traits_compare(a, b, n) ==
    LET d == {i \in 1..n : a[i] # b[i]}
    IN  IF d = {} THEN 0
        ELSE LET k == CHOOSE i \in d : \A j \in d : i <= j
             IN  IF Code(a[k]) < Code(b[k]) THEN -1 ELSE 1

\* A mutant of compare: the common prefix alone is compared, the lengths are not.
compare_prefix_only(a, b) == traits_compare(a, b, Min(Len(a), Len(b)))

\* std::string::compare(str): the common prefix is compared first and, when it
\* is the same, the lengths are.
compare(a, b) ==
    LET r == traits_compare(a, b, Min(Len(a), Len(b)))
    IN  IF r # 0 THEN r
        ELSE IF Len(a) < Len(b) THEN -1
        ELSE IF Len(a) > Len(b) THEN 1
        ELSE 0

\* std::endl: a line break (and a flush, which leaves no trace in the output).
endl == << "\n" >>

\* The initializer of CppExample::test_string.
TestStringLiteral ==
    << "c", "p", "p", "-", "e", "x", "a", "m", "p", "l", "e", "-", "l", "i",
       "b", " ", "M", "a", "g", "i", "c", ":", " ", "1", "2", "3", "4", "5",
       "6", "7", "8", "9" >>

\* The versions the linked json-c library may report: json_c_version()
\* returns its JSON_C_VERSION, a short dotted number.
JsonCVersions ==
    { << "0", ".", "1", "3" >>,
      << "0", ".", "1", "6" >>,
      << "0", ".", "1", "7" >>,
      << "0", ".", "1", "7", ".", "9", "9" >> }

(***************************************************************************)
(* The state of one process.                                               *)
(***************************************************************************)
VARIABLES
    test_string,     \* CppExample::test_string, the static data member
    json_c_version,  \* what the linked json-c library reports as its version
    program,         \* which program the process runs
    pc,              \* the line of main the process is at, or "exited"
    instances,       \* the CppExample objects alive
    next_id,         \* the identity of the next object constructed
    calls,           \* the accessor calls made so far, with what each returned
    ret_string,      \* main's local ret_string (test-cpp-example.cpp)
    stdout,          \* the characters written to standard output
    exit_status      \* << >> while the process runs, << code >> once it exited

vars == << test_string, json_c_version, program, pc, instances, next_id,
           calls, ret_string, stdout, exit_status >>

Programs == {"cpp-example", "test-cpp-example", "caller"}

Init ==
    /\ test_string = TestStringLiteral
    /\ json_c_version \in JsonCVersions
    /\ program \in Programs
    /\ pc = IF program = "caller" THEN "running" ELSE "line12"
    /\ instances = {}
    /\ next_id = 1
    /\ calls = << >>
    /\ ret_string = << >>
    /\ stdout = << >>
    /\ exit_status = << >>

(***************************************************************************)
(* The library: cpp-example-lib.hpp, cpp-example-lib.cpp.                  *)
(***************************************************************************)
\* A mutant of get_string: the constant without its last character.
get_string_truncated(self) == SubSeq(test_string, 1, Len(test_string) - 1)

\* CppExample::get_string(): a reference to the static constant.
get_string(self) == test_string

\* A mutant of get_json_c_version: the version cut at its first dot.
get_json_c_version_major(self) ==
    LET dots == {i \in 1..Len(json_c_version) : json_c_version[i] = "."}
    IN  IF dots = {} THEN json_c_version
        ELSE SubSeq(json_c_version, 1,
                    (CHOOSE i \in dots : \A j \in dots : i <= j) - 1)

\* A mutant of get_json_c_version: no version at all.
get_json_c_version_empty(self) == << >>

\* CppExample::get_json_c_version(): what json_c_version() returns.
get_json_c_version(self) == json_c_version

\* The record of one accessor call.
Call(self, fn, ret) == [self |-> self, fn |-> fn, ret |-> ret]

\* CppExample(): an object with no members of its own comes to life.
CppExample_construct ==
    /\ program = "caller"
    /\ next_id <= MaxInstances
    /\ instances' = instances \cup {next_id}
    /\ next_id' = next_id + 1
    /\ UNCHANGED << test_string, json_c_version, program, pc, calls,
                    ret_string, stdout, exit_status >>

\* A mutant of CppExample_destroy: the destructor clears the shared constant,
\* as if the object owned it.
CppExample_destroy_clearing(self) ==
    /\ program = "caller"
    /\ self \in instances
    /\ instances' = instances \ {self}
    /\ test_string' = << >>
    /\ UNCHANGED << json_c_version, program, pc, next_id, calls,
                    ret_string, stdout, exit_status >>

\* ~CppExample(): the object ends; there is nothing to release.
CppExample_destroy(self) ==
    /\ program = "caller"
    /\ self \in instances
    /\ instances' = instances \ {self}
    /\ UNCHANGED << test_string, json_c_version, program, pc, next_id, calls,
                    ret_string, stdout, exit_status >>

\* A mutant of call_get_string: the accessor gives the constant away
\* (a move out of the static member), leaving it empty.
call_get_string_moving(self) ==
    /\ program = "caller"
    /\ self \in instances
    /\ Len(calls) < MaxCalls
    /\ calls' = Append(calls, Call(self, "get_string", get_string(self)))
    /\ test_string' = << >>
    /\ UNCHANGED << json_c_version, program, pc, instances, next_id,
                    ret_string, stdout, exit_status >>

\* A caller calls get_string() on a live object.
call_get_string(self) ==
    /\ program = "caller"
    /\ self \in instances
    /\ Len(calls) < MaxCalls
    /\ calls' = Append(calls, Call(self, "get_string", get_string(self)))
    /\ UNCHANGED << test_string, json_c_version, program, pc, instances,
                    next_id, ret_string, stdout, exit_status >>

\* A caller calls get_json_c_version() on a live object.
call_get_json_c_version(self) ==
    /\ program = "caller"
    /\ self \in instances
    /\ Len(calls) < MaxCalls
    /\ calls' = Append(calls, Call(self, "get_json_c_version",
                                   get_json_c_version(self)))
    /\ UNCHANGED << test_string, json_c_version, program, pc, instances,
                    next_id, ret_string, stdout, exit_status >>

(***************************************************************************)
(* The demonstration program: cpp-example.cpp.                             *)
(***************************************************************************)
\* main's local cpp_example: the object main constructed, the latest one.
cpp_example == next_id - 1

\* auto cpp_example = CppExample();
demo_line12 ==
    /\ program = "cpp-example"
    /\ pc = "line12"
    /\ instances' = instances \cup {next_id}
    /\ next_id' = next_id + 1
    /\ pc' = "line13"
    /\ UNCHANGED << test_string, json_c_version, program, calls, ret_string,
                    stdout, exit_status >>

\* A mutant of demo_line13: the line is not ended.
demo_line13_no_endl ==
    /\ program = "cpp-example"
    /\ pc = "line13"
    /\ calls' = Append(calls, Call(cpp_example, "get_string",
                                   get_string(cpp_example)))
    /\ stdout' = stdout
                   \o << "C", "+", "+", " ", "e", "x", "a", "m", "p", "l",
                         "e", " ", "l", "i", "n", "k", "i", "n", "g", " " >>
                   \o get_string(cpp_example)
    /\ pc' = "line14"
    /\ UNCHANGED << test_string, json_c_version, program, instances, next_id,
                    ret_string, exit_status >>

\* std::cout << "C++ example linking " << cpp_example.get_string() << std::endl;
demo_line13 ==
    /\ program = "cpp-example"
    /\ pc = "line13"
    /\ calls' = Append(calls, Call(cpp_example, "get_string",
                                   get_string(cpp_example)))
    /\ stdout' = stdout
                   \o << "C", "+", "+", " ", "e", "x", "a", "m", "p", "l",
                         "e", " ", "l", "i", "n", "k", "i", "n", "g", " " >>
                   \o get_string(cpp_example)
                   \o endl
    /\ pc' = "line14"
    /\ UNCHANGED << test_string, json_c_version, program, instances, next_id,
                    ret_string, exit_status >>

\* std::cout << "Linking json-c version " << cpp_example.get_json_c_version()
\*           << std::endl;
demo_line14 ==
    /\ program = "cpp-example"
    /\ pc = "line14"
    /\ calls' = Append(calls, Call(cpp_example, "get_json_c_version",
                                   get_json_c_version(cpp_example)))
    /\ stdout' = stdout
                   \o << "L", "i", "n", "k", "i", "n", "g", " ", "j", "s",
                         "o", "n", "-", "c", " ", "v", "e", "r", "s", "i",
                         "o", "n", " " >>
                   \o get_json_c_version(cpp_example)
                   \o endl
    /\ pc' = "line15"
    /\ UNCHANGED << test_string, json_c_version, program, instances, next_id,
                    ret_string, exit_status >>

\* return 0; cpp_example ends with main's scope.
demo_line15 ==
    /\ program = "cpp-example"
    /\ pc = "line15"
    /\ instances' = instances \ {cpp_example}
    /\ exit_status' = << 0 >>
    /\ pc' = "exited"
    /\ UNCHANGED << test_string, json_c_version, program, next_id, calls,
                    ret_string, stdout >>

(***************************************************************************)
(* The verification program: test-cpp-example.cpp.                         *)
(***************************************************************************)
\* auto cpp_example = CppExample();
test_line12 ==
    /\ program = "test-cpp-example"
    /\ pc = "line12"
    /\ instances' = instances \cup {next_id}
    /\ next_id' = next_id + 1
    /\ pc' = "line13"
    /\ UNCHANGED << test_string, json_c_version, program, calls, ret_string,
                    stdout, exit_status >>

\* auto ret_string = cpp_example.get_string(); with ret what the accessor
\* returned: ret_string is a copy of it.
test_line13(ret) ==
    /\ program = "test-cpp-example"
    /\ pc = "line13"
    /\ calls' = Append(calls, Call(cpp_example, "get_string", ret))
    /\ ret_string' = ret
    /\ pc' = "line14"
    /\ UNCHANGED << test_string, json_c_version, program, instances, next_id,
                    stdout, exit_status >>

\* A mutant of test_line14: the test of the comparison is inverted.
test_line14_inverted ==
    /\ program = "test-cpp-example"
    /\ pc = "line14"
    /\ IF 0 # compare(ret_string, test_string)
       THEN /\ stdout' = stdout \o << "P", "A", "S", "S", ":", " " >>
                           \o ret_string \o << " ", "=", " " >>
                           \o test_string \o endl
            /\ pc' = "line20"
       ELSE /\ stdout' = stdout \o << "F", "A", "I", "L", ":", " " >>
                           \o ret_string \o << " ", "!", "=", " " >>
                           \o test_string \o endl
            /\ pc' = "line18"
    /\ UNCHANGED << test_string, json_c_version, program, instances, next_id,
                    calls, ret_string, exit_status >>

\* if(0 == ret_string.compare(CppExample::test_string)) and the line either
\* branch prints (lines 14 to 17).
test_line14 ==
    /\ program = "test-cpp-example"
    /\ pc = "line14"
    /\ IF 0 = compare(ret_string, test_string)
       THEN /\ stdout' = stdout \o << "P", "A", "S", "S", ":", " " >>
                           \o ret_string \o << " ", "=", " " >>
                           \o test_string \o endl
            /\ pc' = "line20"
       ELSE /\ stdout' = stdout \o << "F", "A", "I", "L", ":", " " >>
                           \o ret_string \o << " ", "!", "=", " " >>
                           \o test_string \o endl
            /\ pc' = "line18"
    /\ UNCHANGED << test_string, json_c_version, program, instances, next_id,
                    calls, ret_string, exit_status >>

\* A mutant of test_return: return 1 stands after the if, not in its else.
test_return_always_one ==
    /\ program = "test-cpp-example"
    /\ pc \in {"line18", "line20"}
    /\ instances' = instances \ {cpp_example}
    /\ exit_status' = << 1 >>
    /\ pc' = "exited"
    /\ UNCHANGED << test_string, json_c_version, program, next_id, calls,
                    ret_string, stdout >>

\* main returns: return 1; at line 18, and at line 20 the end of main, which
\* returns 0. cpp_example and ret_string end with main's scope.
test_return ==
    /\ program = "test-cpp-example"
    /\ pc \in {"line18", "line20"}
    /\ instances' = instances \ {cpp_example}
    /\ exit_status' = << IF pc = "line18" THEN 1 ELSE 0 >>
    /\ pc' = "exited"
    /\ UNCHANGED << test_string, json_c_version, program, next_id, calls,
                    ret_string, stdout >>

(***************************************************************************)
(* The process as the source has it: a free caller of the library, the     *)
(* demonstration program or the verification program.                      *)
(***************************************************************************)
Next ==
    \/ CppExample_construct
    \/ \E self \in 1..MaxInstances : CppExample_destroy(self)
    \/ \E self \in 1..MaxInstances : call_get_string(self)
    \/ \E self \in 1..MaxInstances : call_get_json_c_version(self)
    \/ demo_line12
    \/ demo_line13
    \/ demo_line14
    \/ demo_line15
    \/ test_line12
    \/ test_line13(get_string(cpp_example))
    \/ test_line14
    \/ test_return

Spec == Init /\ [][Next]_vars

(***************************************************************************)
(* The verification program with the accessor replaced by an arbitrary     *)
(* source of strings: what main does with each value it may be handed.     *)
(***************************************************************************)
\* Characters the source puts in place of, or after, those of the constant.
SourceChars == {"X", "\n", "P"}

\* The strings of at most n characters of SourceChars.
RECURSIVE Strings(_)
Strings(n) ==
    IF n = 0 THEN {<< >>}
    ELSE Strings(n - 1)
           \cup {Append(s, c) : s \in Strings(n - 1), c \in SourceChars}

\* The strings the source may return: the constant, each of its prefixes, the
\* constant with one character replaced, the constant followed by up to
\* MaxAppend characters, and strings that hold the words the program prints.
StringSource ==
    {SubSeq(TestStringLiteral, 1, n) : n \in 0..Len(TestStringLiteral)}
      \cup {[TestStringLiteral EXCEPT ![i] = c] :
              i \in 1..Len(TestStringLiteral), c \in SourceChars}
      \cup {TestStringLiteral \o s : s \in Strings(MaxAppend)}
      \cup { << "P", "A", "S", "S" >>,
             << "F", "A", "I", "L" >>,
             << "\n", "P", "A", "S", "S" >>,
             << "\n", "P", "A", "S" >>,
             << "X", "\n", "P", "A", "S", "S", ":", " ", "X" >>,
             << "\n", "F", "A", "I", "L" >> }

InitAnySource == Init /\ program = "test-cpp-example"

NextAnySource ==
    \/ test_line12
    \/ \E s \in StringSource : test_line13(s)
    \/ test_line14
    \/ test_return

SpecAnySource == InitAnySource /\ [][NextAnySource]_vars

(***************************************************************************)
(* What the properties below speak of.                                     *)
(***************************************************************************)
\* The calls of accessor fn made so far, as places in the record of calls.
CallsOf(fn) == {i \in 1..Len(calls) : calls[i].fn = fn}

\* w is found in s, starting at place p.
At(s, w, p) == p + Len(w) - 1 <= Len(s) /\ SubSeq(s, p, p + Len(w) - 1) = w

\* s holds w somewhere.
Contains(s, w) == \E p \in 1..Len(s) : At(s, w, p)

\* A line of the output out begins with w: w stands at the start of the
\* output or right after a line break.
HasLine(out, w) ==
    \E p \in 1..Len(out) : (p = 1 \/ out[p - 1] = "\n") /\ At(out, w, p)

\* How many lines the output out holds: each ends with a line break.
LineCount(out) == Cardinality({p \in 1..Len(out) : out[p] = "\n"})

PASS == << "P", "A", "S", "S" >>
FAIL == << "F", "A", "I", "L" >>

\* What the demonstration program writes in all.
DemoOutput ==
    << "C", "+", "+", " ", "e", "x", "a", "m", "p", "l", "e", " ", "l", "i",
       "n", "k", "i", "n", "g", " " >>
      \o TestStringLiteral \o << "\n" >>
      \o << "L", "i", "n", "k", "i", "n", "g", " ", "j", "s", "o", "n", "-",
            "c", " ", "v", "e", "r", "s", "i", "o", "n", " " >>
      \o json_c_version \o << "\n" >>

\* The one line of the verification program when the strings agree.
PassOutput ==
    << "P", "A", "S", "S", ":", " " >> \o TestStringLiteral
      \o << " ", "=", " " >> \o TestStringLiteral \o << "\n" >>

(***************************************************************************)
(* The properties.                                                         *)
(***************************************************************************)
\* C1: every call of get_string(), on whichever instance and at whichever
\* point of a run, returns exactly the constant CppExample::test_string,
\* whose value is the literal "cpp-example-lib Magic: 123456789"; so does
\* the copy the verification program keeps of it.
C1_GetStringReturnsConstant ==
    /\ \A i \in CallsOf("get_string") :
          calls[i].ret = test_string /\ calls[i].ret = TestStringLiteral
    /\ (program = "test-cpp-example" /\ pc \notin {"line12", "line13"})
          => ret_string = TestStringLiteral

\* get_string() was called on two different instances of one process.
C1_Witness ==
    \E i, j \in CallsOf("get_string") : calls[i].self # calls[j].self

\* C2: when the verification program has run with the accessor returning
\* exactly the constant, it has printed a line beginning with PASS and no
\* line beginning with FAIL, and has exited with code 0.
C2_EqualPrintsPassExitsZero ==
    (pc = "exited" /\ ret_string = test_string)
        => /\ HasLine(stdout, PASS)
           /\ ~HasLine(stdout, FAIL)
           /\ exit_status = << 0 >>

\* The verification program has exited after the source returned the constant.
C2_Witness ==
    /\ pc = "exited"
    /\ ret_string = TestStringLiteral
    /\ At(stdout, PASS, 1)

\* C3 as stated: when the verification program has run with the accessor
\* returning a value that differs from the constant, it has printed a line
\* beginning with FAIL and no line beginning with PASS, and has exited with
\* code 1.
C3_DifferentPrintsFailNoPass ==
    (pc = "exited" /\ ret_string # test_string)
        => /\ HasLine(stdout, FAIL)
           /\ ~HasLine(stdout, PASS)
           /\ exit_status = << 1 >>

\* C3 as amended: when the verification program has run with the accessor
\* returning a value that differs from the constant, it has printed a line
\* beginning with FAIL and has exited with code 1; it has printed a line
\* beginning with PASS only if the returned value itself holds a line break
\* followed by PASS.
C3_DifferentPrintsFail ==
    (pc = "exited" /\ ret_string # test_string)
        => /\ HasLine(stdout, FAIL)
           /\ At(stdout, FAIL, 1)
           /\ exit_status = << 1 >>
           /\ HasLine(stdout, PASS)
                 => Contains(ret_string, << "\n", "P", "A", "S", "S" >>)

\* The verification program has exited with code 1 after the source returned
\* a string as long as the constant that differs from it in one character.
C3_Witness ==
    /\ pc = "exited"
    /\ ret_string # test_string
    /\ Len(ret_string) = Len(test_string)
    /\ exit_status = << 1 >>
    /\ ~HasLine(stdout, PASS)

\* C4: every call of get_json_c_version() returns what the json-c library
\* reports as its version, character for character.
C4_VersionForwardedUnchanged ==
    \A i \in CallsOf("get_json_c_version") : calls[i].ret = json_c_version

\* get_json_c_version() was called with the library reporting its longest
\* version, the one with two dots.
C4_Witness ==
    \E i \in CallsOf("get_json_c_version") :
        /\ calls[i].ret = << "0", ".", "1", "7", ".", "9", "9" >>
        /\ json_c_version = << "0", ".", "1", "7", ".", "9", "9" >>

\* C5: the string a call of get_json_c_version() returns is never empty.
C5_VersionNonEmpty ==
    \A i \in CallsOf("get_json_c_version") : Len(calls[i].ret) >= 1

\* The demonstration program has printed the version it was given.
C5_Witness ==
    /\ program = "cpp-example"
    /\ pc = "exited"
    /\ CallsOf("get_json_c_version") # {}

\* C6: any two calls of the same accessor in one process return the same
\* value, whatever the instances they are made on and whatever calls are
\* made between them.
C6_Idempotence ==
    \A i, j \in 1..Len(calls) :
        calls[i].fn = calls[j].fn => calls[i].ret = calls[j].ret

\* Two calls of one accessor on different instances, with a call of the
\* other accessor between them.
C6_Witness ==
    \E i, j, k \in 1..Len(calls) :
        /\ i < j /\ j < k
        /\ calls[i].fn = calls[k].fn
        /\ calls[j].fn # calls[i].fn
        /\ calls[i].self # calls[k].self

\* C7: the demonstration program writes the line carrying get_string()'s
\* value and then the line carrying get_json_c_version()'s value, these two
\* lines and no more, and then exits with code 0; it exits with no other
\* code, and it can always take its next step until it has exited.
C7_DemoTwoLinesExitZero ==
    program = "cpp-example"
        => /\ At(DemoOutput, stdout, 1)
           /\ exit_status \in {<< >>, << 0 >>}
           /\ pc = "exited"
                 => /\ exit_status = << 0 >>
                    /\ stdout = DemoOutput
                    /\ LineCount(stdout) = 2
           /\ pc # "exited" => ENABLED Next

\* The demonstration program has exited.
C7_Witness ==
    /\ program = "cpp-example"
    /\ pc = "exited"
    /\ LineCount(stdout) = 2
    /\ instances = {}

\* C8: test_string has the value it was initialized with, whatever
\* constructions, destructions and accessor calls have taken place.
C8_ConstantNeverChanges == test_string = TestStringLiteral

\* Every instance was constructed and destroyed again, and both accessors
\* were called.
C8_Witness ==
    /\ next_id = MaxInstances + 1
    /\ instances = {}
    /\ CallsOf("get_string") # {}
    /\ CallsOf("get_json_c_version") # {}

\* C9: with get_string() as it is, the verification program prints no line
\* beginning with FAIL and never exits with code 1; once it has exited it
\* has printed the single line "PASS: <constant> = <constant>" and its code
\* is 0; and it can always take its next step until it has exited.
C9_FailUnreachable ==
    program = "test-cpp-example"
        => /\ ~HasLine(stdout, FAIL)
           /\ exit_status # << 1 >>
           /\ pc # "line18"
           /\ pc = "exited"
                 => /\ stdout = PassOutput
                    /\ LineCount(stdout) = 1
                    /\ exit_status = << 0 >>
           /\ pc # "exited" => ENABLED Next

\* The verification program has exited, having called the real accessor.
C9_Witness ==
    /\ program = "test-cpp-example"
    /\ pc = "exited"
    /\ CallsOf("get_string") # {}
    /\ At(stdout, PASS, 1)
=============================================================================
